---- MODULE Spec2Model ----
(***************************************************************************)
(* hqs-privilege-service: the privilege repository (MongoRepository), the  *)
(* gRPC handler in front of it, the token check (validateTokenHelper) and  *)
(* the bootstrap sequence of server.Run, over a shared privilege           *)
(* collection and a shared user collection.                                *)
(*                                                                         *)
(* Ids are uuid draws, modelled as 1, 2, ... in order of insertion; the    *)
(* empty string id is 0.  The zero time.Time is 0; time.Now() is a value   *)
(* of Times.  Errors are the message strings of the code.                  *)
(*                                                                         *)
(* Every repository and handler operation is an operator that yields the   *)
(* set of outcomes the call can have in the current state (over the        *)
(* storage calls succeeding or failing and the readings of the clock);     *)
(* the actions apply one of them.  A call that makes several storage       *)
(* calls is one action per storage call.                                   *)
(*                                                                         *)
(* Specifications:                                                         *)
(*   BootSpec     instances of the service run Run's bootstrap against an  *)
(*                empty database, interleaved at every storage call;       *)
(*   BootSeqSpec  the same, one repository call after the other;           *)
(*   Spec         the bootstrapped service serves Create, Update and       *)
(*                Delete requests while the owner of the user collection   *)
(*                assigns privileges, interleaved at every storage call;   *)
(*   SeqSpec      the same, one repository call after the other;           *)
(*   GateSpec     the token check alone, over every context and answer.    *)
(***************************************************************************)
EXTENDS Integers, Sequences, FiniteSets, TLC

\* ------------------------------------------------------------------ bounds
NumProcs == 2
MaxDeletes == 1
MaxIds == 3
NumUsers == 2
MaxTime == 1
MaxTokenLen == 1

Procs == 1..NumProcs
Calls == 1..MaxDeletes
Users == 1..NumUsers
Times == 1..MaxTime

\* ------------------------------------------------------------------ errors
Nil == "nil"
ErrNoDocuments == "mongo: no documents in result"
ErrStorage == "storage error"
ErrNoMetadata == "Could not validate token"
ErrNoToken == "Missing token header in context"
ErrEmptyToken == "Token is empty"
ErrNoIP == "Required USER_SERVICE_IP"
ErrNoPort == "Required USER_SERVICE_PORT"
ErrDial == "dial error"
ErrPing == "ping error"
ErrValidateToken == "ValidateToken error"
ErrForbidden == "User not allowed to manage privileges"
ErrDefaultExists == "Default privilege already exists"
ErrRootExists == "Root privilege already exists"
ErrUpdateRoot == "Cannot update root privilege"
ErrDeleteRoot == "Cannot delete root privilege"
ErrCreateNoView == "Create access not allowed without view access"
ErrUpdateCreateNoView == "Create access bot allowed without view access"
ErrDeleteNoView == "Delete access not allowed without view access"
ErrManageNoView == "Manage privileges access not allowed without view access"
ErrBlockNoView == "Block access not allowed without view access"
ErrResetNoView == "Send reset email access not allowed without view access"
ErrNameRequired == "Name is required"
ErrUnknownAction == "Unknown action"

\* ------------------------------------------------------------- privileges
\* repository.Privilege
Privilege(id, name, view, create, manage, delete, block, reset, createdAt, updatedAt, default, root) ==
  [ID |-> id, Name |-> name, ViewAllUsers |-> view, CreateUser |-> create,
   ManagePrivileges |-> manage, DeleteUser |-> delete, BlockUser |-> block,
   SendResetPasswordEmail |-> reset, CreatedAt |-> createdAt,
   UpdatedAt |-> updatedAt, Default |-> default, Root |-> root]

Dependent ==
  {"CreateUser", "ManagePrivileges", "DeleteUser", "BlockUser", "SendResetPasswordEmail"}

\* The capability flags a request may carry: none, block_user with
\* view_all_users, and block_user without it.
FlagChoices ==
  { f \in [ViewAllUsers : BOOLEAN, CreateUser : BOOLEAN, ManagePrivileges : BOOLEAN,
           DeleteUser : BOOLEAN, BlockUser : BOOLEAN, SendResetPasswordEmail : BOOLEAN] :
      LET n == Cardinality({ k \in Dependent : f[k] })
      IN  \/ n = 0 /\ ~f.ViewAllUsers
          \/ n = 1 /\ f.BlockUser }

Names == {"", "a"}

\* What a request may carry in its default and root fields.
SingletonChoices == {<<FALSE, FALSE>>, <<TRUE, FALSE>>, <<FALSE, TRUE>>}

\* MarshalPrivilege: the request as the handler hands it to the repository.
MarshalPrivilege(id, name, f, default, root) ==
  Privilege(id, name, f.ViewAllUsers, f.CreateUser, f.ManagePrivileges, f.DeleteUser,
            f.BlockUser, f.SendResetPasswordEmail, 0, 0, default, root)

NoFlags == CHOOSE f \in FlagChoices : \A k \in DOMAIN f : ~f[k]

\* Create requests: Create overwrites the id before anything reads it.
CreateRequests ==
  { MarshalPrivilege(0, name, f, sr[1], sr[2]) :
      name \in Names, f \in FlagChoices, sr \in SingletonChoices }

UpdateRequests ==
  { MarshalPrivilege(id, name, f, sr[1], sr[2]) :
      id \in 0..MaxIds, name \in Names, f \in FlagChoices, sr \in SingletonChoices }

\* Delete requests: Delete reads the id and the two singleton flags only.
DeleteRequests ==
  { MarshalPrivilege(id, "", NoFlags, sr[1], sr[2]) :
      id \in 0..MaxIds, sr \in SingletonChoices }

\* validate without its block_user rule.
validate_NoBlockRule(p, action) ==
  CASE action = "create" ->
         IF p.CreateUser /\ ~p.ViewAllUsers THEN ErrCreateNoView
         ELSE IF p.DeleteUser /\ ~p.ViewAllUsers THEN ErrDeleteNoView
         ELSE IF p.ManagePrivileges /\ ~p.ViewAllUsers THEN ErrManageNoView
         ELSE IF p.SendResetPasswordEmail /\ ~p.ViewAllUsers THEN ErrResetNoView
         ELSE IF p.Name = "" THEN ErrNameRequired
         ELSE IF p.ID = 0 THEN ErrNameRequired
         ELSE Nil
    [] action = "update" ->
         IF p.Default \/ p.Root THEN ErrUpdateRoot
         ELSE IF p.CreateUser /\ ~p.ViewAllUsers THEN ErrUpdateCreateNoView
         ELSE IF p.DeleteUser /\ ~p.ViewAllUsers THEN ErrDeleteNoView
         ELSE IF p.ManagePrivileges /\ ~p.ViewAllUsers THEN ErrManageNoView
         ELSE IF p.SendResetPasswordEmail /\ ~p.ViewAllUsers THEN ErrResetNoView
         ELSE IF p.Name = "" THEN ErrNameRequired
         ELSE IF p.ID = 0 THEN ErrNameRequired
         ELSE Nil
    [] action = "delete" ->
         IF p.Default \/ p.Root THEN ErrDeleteRoot ELSE Nil
    [] OTHER -> ErrUnknownAction

\* Privilege.validate
validate(p, action) ==
  CASE action = "create" ->
         IF p.CreateUser /\ ~p.ViewAllUsers THEN ErrCreateNoView
         ELSE IF p.DeleteUser /\ ~p.ViewAllUsers THEN ErrDeleteNoView
         ELSE IF p.ManagePrivileges /\ ~p.ViewAllUsers THEN ErrManageNoView
         ELSE IF p.BlockUser /\ ~p.ViewAllUsers THEN ErrBlockNoView
         ELSE IF p.SendResetPasswordEmail /\ ~p.ViewAllUsers THEN ErrResetNoView
         ELSE IF p.Name = "" THEN ErrNameRequired
         ELSE IF p.ID = 0 THEN ErrNameRequired
         ELSE Nil
    [] action = "update" ->
         IF p.Default \/ p.Root THEN ErrUpdateRoot
         ELSE IF p.CreateUser /\ ~p.ViewAllUsers THEN ErrUpdateCreateNoView
         ELSE IF p.DeleteUser /\ ~p.ViewAllUsers THEN ErrDeleteNoView
         ELSE IF p.ManagePrivileges /\ ~p.ViewAllUsers THEN ErrManageNoView
         ELSE IF p.BlockUser /\ ~p.ViewAllUsers THEN ErrBlockNoView
         ELSE IF p.SendResetPasswordEmail /\ ~p.ViewAllUsers THEN ErrResetNoView
         ELSE IF p.Name = "" THEN ErrNameRequired
         ELSE IF p.ID = 0 THEN ErrNameRequired
         ELSE Nil
    [] action = "delete" ->
         IF p.Default \/ p.Root THEN ErrDeleteRoot ELSE Nil
    [] OTHER -> ErrUnknownAction

\* prepare that leaves the request's default and root fields as they came.
prepare_SingletonsKept(p, action, t1, t2) ==
  CASE action = "create" -> [p EXCEPT !.CreatedAt = t1, !.UpdatedAt = t2]
    [] action = "update" -> [p EXCEPT !.UpdatedAt = t1]
    [] OTHER -> p

\* Privilege.prepare; t1 and t2 are the two readings of time.Now().
prepare(p, action, t1, t2) ==
  CASE action = "create" ->
         [p EXCEPT !.Default = FALSE, !.Root = FALSE, !.CreatedAt = t1, !.UpdatedAt = t2]
    [] action = "update" ->
         [p EXCEPT !.Default = FALSE, !.Root = FALSE, !.UpdatedAt = t1]
    [] OTHER -> p

\* ------------------------------------------------------ authorization gate
\* Characters a token is made of: the space, a tab, and a printable one.
Chars == {" ", "\t", "x"}

Tokens == UNION { [1..n -> Chars] : n \in 0..MaxTokenLen }

\* The incoming context: whether it carries metadata, and meta["token"].
Contexts ==
  { [hasMeta |-> FALSE, token |-> <<>>] } \cup
  { [hasMeta |-> TRUE, token |-> ts] : ts \in {<<>>} \cup { <<t>> : t \in Tokens } }

\* What the process environment and the user service answer during one
\* token check: the two environment lookups, the dial, the ping, and
\* ValidateToken ("err", or the ManagePrivileges field of its result).
Authorities ==
  [ip : BOOLEAN, port : BOOLEAN, dial : BOOLEAN, ping : BOOLEAN,
   validate : {"err", "allow", "deny"}]

\* strings.Trim(s, " "): s without its leading and trailing spaces.
RECURSIVE TrimLeft(_)
TrimLeft(s) == IF s # <<>> /\ Head(s) = " " THEN TrimLeft(Tail(s)) ELSE s

RECURSIVE TrimRight(_)
TrimRight(s) ==
  IF s # <<>> /\ s[Len(s)] = " " THEN TrimRight(SubSeq(s, 1, Len(s) - 1)) ELSE s

Trim(s) == TrimRight(TrimLeft(s))

\* Handler.validateTokenHelper: the error it returns, and the calls it made
\* to the user service on the way.
validateTokenHelper(ctx, auth) ==
  IF ~ctx.hasMeta THEN [err |-> ErrNoMetadata, calls |-> <<>>]
  ELSE IF Len(ctx.token) = 0 THEN [err |-> ErrNoToken, calls |-> <<>>]
  ELSE IF Trim(ctx.token[1]) = <<>> THEN [err |-> ErrEmptyToken, calls |-> <<>>]
  ELSE IF ~auth.ip THEN [err |-> ErrNoIP, calls |-> <<>>]
  ELSE IF ~auth.port THEN [err |-> ErrNoPort, calls |-> <<>>]
  ELSE IF ~auth.dial THEN [err |-> ErrDial, calls |-> <<"Dial">>]
  ELSE IF ~auth.ping THEN [err |-> ErrPing, calls |-> <<"Dial", "Ping">>]
  ELSE IF auth.validate = "err"
    THEN [err |-> ErrValidateToken, calls |-> <<"Dial", "Ping", "ValidateToken">>]
  ELSE IF auth.validate = "deny"
    THEN [err |-> ErrForbidden, calls |-> <<"Dial", "Ping", "ValidateToken">>]
  ELSE [err |-> Nil, calls |-> <<"Dial", "Ping", "ValidateToken">>]

\* The environment of a deployed instance: k8/deployment.yaml sets
\* USER_SERVICE_IP and USER_SERVICE_PORT.
Deployed == { a \in Authorities : a.ip /\ a.port }

\* The outcomes validateTokenHelper can have for the requests an instance serves.
GateOutcomes == { validateTokenHelper(c, a) : c \in Contexts, a \in Deployed }

\* -------------------------------------------------------------------- state
VARIABLES
  privs,    \* the privilege collection (r.mongo): a set of Privilege documents
  users,    \* the user collection (r.mongoUser): per user document, its privilege_id
  issued,   \* how many uuids have been stored so far
  pc,       \* per service instance: where it is in Run
  call,     \* per Delete call in progress: where it is, and its locals
  resp,     \* the error the last operation to return has returned
  gateIn,   \* token check on its own: the context and the environment's answers
  gateOut   \* token check on its own: what validateTokenHelper returned

vars == <<privs, users, issued, pc, call, resp, gateIn, gateOut>>

NoGateIn == [ctx |-> [hasMeta |-> FALSE, token |-> <<>>], auth |-> "none"]

NoGateOut == [err |-> "idle", calls |-> <<>>]

NoCall == [pc |-> "idle", ID |-> 0, defaultID |-> 0]

\* The database before any instance has started.
BootInit ==
  /\ privs = {}
  /\ users = [u \in Users |-> 0]
  /\ issued = 0
  /\ pc = [p \in Procs |-> "CreateDefault"]
  /\ call = [c \in Calls |-> NoCall]
  /\ resp = Nil
  /\ gateIn = NoGateIn
  /\ gateOut = NoGateOut

\* uuid.NewV4().String(): an id no document and no request has carried.
NewV4 == issued + 1

\* ---------------------------------------------------------------- lookups
\* mongo FindOne with filter {"default": true}: the documents it may return.
FindDefault == { r \in privs : r.Default }

\* mongo FindOne with filter {"root": true}.
FindRoot == { r \in privs : r.Root }

\* GetDefault with the filter of GetRoot.
GetDefault_RootFilter(ok) ==
  IF ~ok THEN { [ID |-> 0, err |-> ErrStorage] }
  ELSE IF FindRoot = {} THEN { [ID |-> 0, err |-> ErrNoDocuments] }
  ELSE { [ID |-> r.ID, err |-> Nil] : r \in FindRoot }

\* MongoRepository.GetDefault: the (document id, error) pairs it can return;
\* ok is whether storage answers.
GetDefault(ok) ==
  IF ~ok THEN { [ID |-> 0, err |-> ErrStorage] }
  ELSE IF FindDefault = {} THEN { [ID |-> 0, err |-> ErrNoDocuments] }
  ELSE { [ID |-> r.ID, err |-> Nil] : r \in FindDefault }

\* MongoRepository.GetRoot
GetRoot(ok) ==
  IF ~ok THEN { [ID |-> 0, err |-> ErrStorage] }
  ELSE IF FindRoot = {} THEN { [ID |-> 0, err |-> ErrNoDocuments] }
  ELSE { [ID |-> r.ID, err |-> Nil] : r \in FindRoot }

\* ------------------------------------------------------------ repository
\* An outcome of a repository call on the privilege collection: the error
\* returned and the collection it leaves.
Outcome(err, docs, n) == [err |-> err, privs |-> docs, issued |-> n]

\* mongo InsertOne into the privilege collection: the write goes through,
\* or storage fails and nothing is written.
InsertOne(doc) ==
  { Outcome(Nil, privs \cup {doc}, issued + 1), Outcome(ErrStorage, privs, issued) }

\* The outcomes within the model's supply of ids.
InBounds(outs) == { out \in outs : out.issued <= MaxIds }

\* The document CreateDefault inserts.
DefaultPrivilege(id) ==
  Privilege(id, "Default", FALSE, FALSE, FALSE, FALSE, FALSE, FALSE, 0, 0, TRUE, FALSE)

\* The document CreateRoot inserts.
RootPrivilege(id) ==
  Privilege(id, "Root", TRUE, TRUE, TRUE, TRUE, TRUE, TRUE, 0, 0, FALSE, TRUE)

\* MongoRepository.CreateDefault up to its lookup: whether the call returns
\* at once, with which error.  It goes on to insert unless the lookup
\* returned a document.
CreateDefaultLookup ==
  { IF found.err = Nil THEN [return |-> TRUE, err |-> ErrDefaultExists]
    ELSE [return |-> FALSE, err |-> Nil] :
      found \in GetDefault(TRUE) \cup GetDefault(FALSE) }

\* MongoRepository.CreateRoot up to its lookup.
CreateRootLookup ==
  { IF found.err = Nil THEN [return |-> TRUE, err |-> ErrRootExists]
    ELSE [return |-> FALSE, err |-> Nil] :
      found \in GetRoot(TRUE) \cup GetRoot(FALSE) }

\* MongoRepository.Create: the outcomes of the call.
RepositoryCreate(req, t1, t2) ==
  LET priv == prepare([req EXCEPT !.ID = NewV4], "create", t1, t2)
      err == validate(priv, "create")
  IN  IF err # Nil THEN { Outcome(err, privs, issued) } ELSE InsertOne(priv)

\* mongo UpdateOne with filter {"id": id} and the $set of Update: the
\* outcomes.  One matching document, if there is any, takes the new fields;
\* or storage fails and nothing is written.
UpdateOne(priv, now) ==
  LET match == { r \in privs : r.ID = priv.ID }
      Written(docs) == { Outcome(Nil, docs, issued), Outcome(ErrStorage, privs, issued) }
  IN  IF match = {} THEN Written(privs)
      ELSE UNION { Written((privs \ {r}) \cup
               { [r EXCEPT !.Name = priv.Name,
                           !.ViewAllUsers = priv.ViewAllUsers,
                           !.CreateUser = priv.CreateUser,
                           !.ManagePrivileges = priv.ManagePrivileges,
                           !.DeleteUser = priv.DeleteUser,
                           !.BlockUser = priv.BlockUser,
                           !.SendResetPasswordEmail = priv.SendResetPasswordEmail,
                           !.UpdatedAt = now] }) : r \in match }

\* MongoRepository.Update: the outcomes of the call.
RepositoryUpdate(req, t1, t2) ==
  LET priv == prepare(req, "update", t1, t1)
      err == validate(priv, "update")
  IN  IF err # Nil THEN { Outcome(err, privs, issued) } ELSE UpdateOne(priv, t2)

\* Delete going on to reassign the users whatever GetDefault returned.
RepositoryDelete_LookupErrDropped(req) ==
  LET err == validate(req, "delete")
  IN  IF err # Nil THEN { [err |-> err, defaultID |-> 0] }
      ELSE { [err |-> Nil, defaultID |-> defaultPrivilege.ID] :
               defaultPrivilege \in GetDefault(TRUE) \cup GetDefault(FALSE) }

\* MongoRepository.Delete up to its lookup of the default privilege: the
\* (error, default privilege id) pairs.  The call goes on to reassign the
\* users when the error is nil.
RepositoryDelete(req) ==
  LET err == validate(req, "delete")
  IN  IF err # Nil THEN { [err |-> err, defaultID |-> 0] }
      ELSE { [err |-> defaultPrivilege.err, defaultID |-> defaultPrivilege.ID] :
               defaultPrivilege \in GetDefault(TRUE) \cup GetDefault(FALSE) }

\* UpdateMany with a filter on "id", a field no user document has: nothing
\* matches, nothing is written.
UpdateMany_FilterOnId(id, defaultID) ==
  { [err |-> Nil, users |-> users], [err |-> ErrStorage, users |-> users] }

\* mongo UpdateMany on the user collection with filter {"privilege_id": id}
\* and $set privilege_id: the outcomes.  Documents are written one by one:
\* a failing UpdateMany may have written any of them.
UpdateMany(id, defaultID) ==
  LET match == { u \in Users : users[u] = id }
      Set(S) == [u \in Users |-> IF u \in S THEN defaultID ELSE users[u]]
  IN  { [err |-> Nil, users |-> Set(match)] } \cup
      { [err |-> ErrStorage, users |-> Set(S)] : S \in SUBSET match }

\* mongo DeleteOne with filter {"id": id}: the outcomes.
DeleteOne(id) ==
  LET match == { r \in privs : r.ID = id }
  IN  { Outcome(ErrStorage, privs, issued) } \cup
      IF match = {} THEN { Outcome(Nil, privs, issued) }
      ELSE { Outcome(Nil, privs \ {r}, issued) : r \in match }

\* ---------------------------------------------------------------- handler
\* Handler.Create: the outcomes of the call, given what the token check
\* returned.
HandlerCreate(gate, req, t1, t2) ==
  IF gate.err # Nil THEN { Outcome(gate.err, privs, issued) }
  ELSE RepositoryCreate(req, t1, t2)

\* Handler.Update going on to the repository whatever the token check returned.
HandlerUpdate_ErrDropped(gate, req, t1, t2) == RepositoryUpdate(req, t1, t2)

\* Handler.Update
HandlerUpdate(gate, req, t1, t2) ==
  IF gate.err # Nil THEN { Outcome(gate.err, privs, issued) }
  ELSE RepositoryUpdate(req, t1, t2)

\* Handler.Delete up to the repository's lookup of the default privilege.
HandlerDelete(gate, req) ==
  IF gate.err # Nil THEN { [err |-> gate.err, defaultID |-> 0] }
  ELSE RepositoryDelete(req)

\* ------------------------------------------------------------------ reads
\* ptypes.TimestampProto: the protobuf timestamp of a time.Time.
TimestampProto(t) == [Seconds |-> t, Nanos |-> 0]

\* UnmarshalPrivilege: the protobuf message of a stored document.
UnmarshalPrivilege(priv) ==
  [Id |-> priv.ID, Name |-> priv.Name, ViewAllUsers |-> priv.ViewAllUsers,
   CreateUser |-> priv.CreateUser, ManagePrivileges |-> priv.ManagePrivileges,
   DeleteUser |-> priv.DeleteUser, BlockUser |-> priv.BlockUser,
   SendResetPasswordEmail |-> priv.SendResetPasswordEmail,
   Root |-> priv.Root, Default |-> priv.Default,
   CreatedAt |-> TimestampProto(priv.CreatedAt),
   UpdatedAt |-> TimestampProto(priv.UpdatedAt)]

\* &privilegeProto.Response{}: no privilege (the empty sequence stands for
\* the nil pointer) and no list of privileges.
EmptyResponse == [Privilege |-> <<>>, Privileges |-> {}]

\* Get requests: Get reads the id only.
GetRequests == { MarshalPrivilege(id, "", NoFlags, FALSE, FALSE) : id \in 0..MaxIds }

\* MongoRepository.Get against the collection docs: the (document, error)
\* pairs it can return, the document as a sequence of at most one.
RepositoryGet(docs, req) ==
  LET match == { r \in docs : r.ID = req.ID }
  IN  { [priv |-> <<>>, err |-> ErrStorage] } \cup
      IF match = {} THEN { [priv |-> <<>>, err |-> ErrNoDocuments] }
      ELSE { [priv |-> <<r>>, err |-> Nil] : r \in match }

\* MongoRepository.GetAll against the collection docs.
RepositoryGetAll(docs) ==
  { [privs |-> {}, err |-> ErrStorage], [privs |-> docs, err |-> Nil] }

\* What a read handler returns: the error, the response, and whether the
\* repository has been queried on the way.
Read(err, response, queried) == [err |-> err, rep |-> response, queried |-> queried]

\* Handler.Get against the collection docs.  The handler fills in a
\* response rep and returns a new, empty one.
HandlerGet(docs, req) ==
  { IF out.err # Nil THEN Read(out.err, EmptyResponse, TRUE)
    ELSE LET rep == [EmptyResponse EXCEPT !.Privilege = <<UnmarshalPrivilege(out.priv[1])>>]
         IN  Read(Nil, EmptyResponse, TRUE) :
      out \in RepositoryGet(docs, req) }

\* Handler.GetRoot: it makes no token check.
HandlerGetRoot ==
  { IF out.err # Nil THEN Read(out.err, EmptyResponse, TRUE)
    ELSE Read(Nil, EmptyResponse, TRUE) :
      out \in GetRoot(TRUE) \cup GetRoot(FALSE) }

\* Handler.GetDefault: it makes no token check.
HandlerGetDefault ==
  { IF out.err # Nil THEN Read(out.err, EmptyResponse, TRUE)
    ELSE Read(Nil, EmptyResponse, TRUE) :
      out \in GetDefault(TRUE) \cup GetDefault(FALSE) }

\* Handler.GetAll against the collection docs: it makes no token check.
HandlerGetAll(docs) ==
  { IF out.err # Nil THEN Read(out.err, EmptyResponse, TRUE)
    ELSE LET rep == [EmptyResponse EXCEPT
                       !.Privileges = { UnmarshalPrivilege(r) : r \in out.privs }]
         IN  Read(Nil, EmptyResponse, TRUE) :
      out \in RepositoryGetAll(docs) }

\* ---------------------------------------------------------------- actions
\* Some instance has finished Run's bootstrap and serves requests.
Serving == \E p \in Procs : pc[p] = "serve"

\* The payloads to go through for a request with token check result gate:
\* a rejected request's payload is never read, so one stands for all.
Payloads(gate, reqs) == IF gate.err = Nil THEN reqs ELSE { CHOOSE r \in reqs : TRUE }

\* Run calls repo.CreateDefault: the lookup.
CreateDefaultCheck(p) ==
  /\ pc[p] = "CreateDefault"
  /\ \E out \in CreateDefaultLookup :
       IF out.return
         THEN /\ resp' = out.err
              /\ pc' = [pc EXCEPT ![p] = "CreateRoot"]
         ELSE /\ resp' = resp
              /\ pc' = [pc EXCEPT ![p] = "CreateDefault_InsertOne"]
  /\ UNCHANGED <<privs, users, issued, call, gateIn, gateOut>>

\* repo.CreateDefault: the insert.  Run logs the error, if any, and goes on.
CreateDefaultInsert(p) ==
  /\ pc[p] = "CreateDefault_InsertOne"
  /\ \E out \in InBounds(InsertOne(DefaultPrivilege(NewV4))) :
       /\ privs' = out.privs
       /\ issued' = out.issued
       /\ resp' = out.err
  /\ pc' = [pc EXCEPT ![p] = "CreateRoot"]
  /\ UNCHANGED <<users, call, gateIn, gateOut>>

\* Run calls repo.CreateRoot: the lookup.
CreateRootCheck(p) ==
  /\ pc[p] = "CreateRoot"
  /\ \E out \in CreateRootLookup :
       IF out.return
         THEN /\ resp' = out.err
              /\ pc' = [pc EXCEPT ![p] = "serve"]
         ELSE /\ resp' = resp
              /\ pc' = [pc EXCEPT ![p] = "CreateRoot_InsertOne"]
  /\ UNCHANGED <<privs, users, issued, call, gateIn, gateOut>>

\* repo.CreateRoot: the insert.  Run then registers the handler and serves.
CreateRootInsert(p) ==
  /\ pc[p] = "CreateRoot_InsertOne"
  /\ \E out \in InBounds(InsertOne(RootPrivilege(NewV4))) :
       /\ privs' = out.privs
       /\ issued' = out.issued
       /\ resp' = out.err
  /\ pc' = [pc EXCEPT ![p] = "serve"]
  /\ UNCHANGED <<users, call, gateIn, gateOut>>

\* A serving instance is stopped and started again: main calls Run anew.
Restart(p) ==
  /\ pc[p] = "serve"
  /\ pc' = [pc EXCEPT ![p] = "CreateDefault"]
  /\ UNCHANGED <<privs, users, issued, call, resp, gateIn, gateOut>>

\* A Create request is served.
Create ==
  /\ Serving
  /\ \E gate \in GateOutcomes : \E req \in Payloads(gate, CreateRequests) :
     \E t1 \in Times, t2 \in Times :
     \E out \in InBounds(HandlerCreate(gate, req, t1, t2)) :
       /\ t1 <= t2
       /\ privs' = out.privs
       /\ issued' = out.issued
       /\ resp' = out.err
  /\ UNCHANGED <<users, pc, call, gateIn, gateOut>>

\* An Update request is served.
Update ==
  /\ Serving
  /\ \E gate \in GateOutcomes : \E req \in Payloads(gate, UpdateRequests) :
     \E t1 \in Times, t2 \in Times :
     \E out \in HandlerUpdate(gate, req, t1, t2) :
       /\ t1 <= t2
       /\ privs' = out.privs
       /\ resp' = out.err
  /\ UNCHANGED <<users, issued, pc, call, gateIn, gateOut>>

\* A Delete request is served, up to the lookup of the default privilege.
Delete(c) ==
  /\ Serving
  /\ call[c].pc = "idle"
  /\ \E gate \in GateOutcomes : \E req \in Payloads(gate, DeleteRequests) :
     \E out \in HandlerDelete(gate, req) :
       IF out.err # Nil
         THEN /\ resp' = out.err
              /\ call' = call
         ELSE /\ resp' = resp
              /\ call' = [call EXCEPT ![c] =
                   [pc |-> "UpdateMany", ID |-> req.ID, defaultID |-> out.defaultID]]
  /\ UNCHANGED <<privs, users, issued, pc, gateIn, gateOut>>

\* Delete call c reassigns the users; on an error the call returns it.
DeleteUpdateMany(c) ==
  /\ call[c].pc = "UpdateMany"
  /\ \E out \in UpdateMany(call[c].ID, call[c].defaultID) :
       /\ users' = out.users
       /\ IF out.err = Nil
            THEN /\ call' = [call EXCEPT ![c].pc = "DeleteOne"]
                 /\ resp' = resp
            ELSE /\ call' = [call EXCEPT ![c] = NoCall]
                 /\ resp' = out.err
  /\ UNCHANGED <<privs, issued, pc, gateIn, gateOut>>

\* Delete call c removes the privilege document and returns.
DeleteDeleteOne(c) ==
  /\ call[c].pc = "DeleteOne"
  /\ \E out \in DeleteOne(call[c].ID) :
       /\ privs' = out.privs
       /\ resp' = out.err
  /\ call' = [call EXCEPT ![c] = NoCall]
  /\ UNCHANGED <<users, issued, pc, gateIn, gateOut>>

\* A Get request is served.
Get ==
  /\ Serving
  /\ \E req \in GetRequests : \E out \in HandlerGet(privs, req) : resp' = out.err
  /\ UNCHANGED <<privs, users, issued, pc, call, gateIn, gateOut>>

\* A GetRoot request is served.
GetRootRequest ==
  /\ Serving
  /\ \E out \in HandlerGetRoot : resp' = out.err
  /\ UNCHANGED <<privs, users, issued, pc, call, gateIn, gateOut>>

\* A GetDefault request is served.
GetDefaultRequest ==
  /\ Serving
  /\ \E out \in HandlerGetDefault : resp' = out.err
  /\ UNCHANGED <<privs, users, issued, pc, call, gateIn, gateOut>>

\* A GetAll request is served.
GetAll ==
  /\ Serving
  /\ \E out \in HandlerGetAll(privs) : resp' = out.err
  /\ UNCHANGED <<privs, users, issued, pc, call, gateIn, gateOut>>

\* The subsystem that owns the user collection gives user u a privilege
\* that is in the privilege collection.
AssignUser(u) ==
  /\ \E r \in privs : users' = [users EXCEPT ![u] = r.ID]
  /\ UNCHANGED <<privs, issued, pc, call, resp, gateIn, gateOut>>

\* ------------------------------------------------------- specifications
\* Instance p is the only one that may be between the lookup and the
\* insert of a bootstrap call.
OnlyCaller(p) ==
  \A q \in Procs \ {p} : pc[q] \notin {"CreateDefault_InsertOne", "CreateRoot_InsertOne"}

BootNext ==
  \/ \E p \in Procs : CreateDefaultCheck(p)
  \/ \E p \in Procs : CreateDefaultInsert(p)
  \/ \E p \in Procs : CreateRootCheck(p)
  \/ \E p \in Procs : CreateRootInsert(p)
  \/ \E p \in Procs : Restart(p)

BootSpec == BootInit /\ [][BootNext]_vars

BootSeqNext ==
  \/ \E p \in Procs : OnlyCaller(p) /\ CreateDefaultCheck(p)
  \/ \E p \in Procs : OnlyCaller(p) /\ CreateDefaultInsert(p)
  \/ \E p \in Procs : OnlyCaller(p) /\ CreateRootCheck(p)
  \/ \E p \in Procs : OnlyCaller(p) /\ CreateRootInsert(p)
  \/ \E p \in Procs : OnlyCaller(p) /\ Restart(p)

BootSeqSpec == BootInit /\ [][BootSeqNext]_vars

\* The step meets no storage error: a call goes on to its insert only on
\* what a lookup that storage answers returns, and an insert goes through.
NoStorageError ==
  \A p \in Procs :
    /\ (pc[p] = "CreateDefault" /\ pc'[p] = "CreateDefault_InsertOne") =>
         \E found \in GetDefault(TRUE) : found.err # Nil
    /\ (pc[p] = "CreateRoot" /\ pc'[p] = "CreateRoot_InsertOne") =>
         \E found \in GetRoot(TRUE) : found.err # Nil
    /\ (pc[p] \in {"CreateDefault_InsertOne", "CreateRoot_InsertOne"} /\ pc'[p] # pc[p]) =>
         privs' # privs

\* The bootstrap of BootSpec against storage that never fails.
BootOkNext ==
  \/ \E p \in Procs : CreateDefaultCheck(p) /\ NoStorageError
  \/ \E p \in Procs : CreateDefaultInsert(p) /\ NoStorageError
  \/ \E p \in Procs : CreateRootCheck(p) /\ NoStorageError
  \/ \E p \in Procs : CreateRootInsert(p) /\ NoStorageError
  \/ \E p \in Procs : Restart(p)

BootOkSpec == BootInit /\ [][BootOkNext]_vars

\* The database after an error-free bootstrap, every instance serving.
Init ==
  /\ privs = {DefaultPrivilege(1), RootPrivilege(2)}
  /\ users = [u \in Users |-> 0]
  /\ issued = 2
  /\ pc = [p \in Procs |-> "serve"]
  /\ call = [c \in Calls |-> NoCall]
  /\ resp = Nil
  /\ gateIn = NoGateIn
  /\ gateOut = NoGateOut

Next ==
  \/ Create
  \/ Update
  \/ \E c \in Calls : Delete(c)
  \/ \E c \in Calls : DeleteUpdateMany(c)
  \/ \E c \in Calls : DeleteDeleteOne(c)
  \/ \E u \in Users : AssignUser(u)

Spec == Init /\ [][Next]_vars

\* No Delete call is in progress, except possibly call c.
OnlyCall(c) == \A d \in Calls \ {c} : call[d].pc = "idle"

Quiet == \A c \in Calls : call[c].pc = "idle"

SeqNext ==
  \/ Quiet /\ Create
  \/ Quiet /\ Update
  \/ \E c \in Calls : OnlyCall(c) /\ Delete(c)
  \/ \E c \in Calls : OnlyCall(c) /\ DeleteUpdateMany(c)
  \/ \E c \in Calls : OnlyCall(c) /\ DeleteDeleteOne(c)
  \/ \E u \in Users : Quiet /\ AssignUser(u)

SeqSpec == Init /\ [][SeqNext]_vars

\* Privileges are created, updated and read, one request after the other.
ReadNext ==
  \/ Create
  \/ Update
  \/ Get
  \/ GetRootRequest
  \/ GetDefaultRequest
  \/ GetAll

ReadSpec == Init /\ [][ReadNext]_vars

GateInit ==
  /\ privs = {}
  /\ users = [u \in Users |-> 0]
  /\ issued = 0
  /\ pc = [p \in Procs |-> "CreateDefault"]
  /\ call = [c \in Calls |-> NoCall]
  /\ resp = Nil
  /\ gateIn \in [ctx : Contexts, auth : Authorities]
  /\ gateOut = [err |-> "pending", calls |-> <<>>]

\* validateTokenHelper is called on the context.
GateCheck ==
  /\ gateOut.err = "pending"
  /\ gateOut' = validateTokenHelper(gateIn.ctx, gateIn.auth)
  /\ UNCHANGED <<privs, users, issued, pc, call, resp, gateIn>>

GateNext == GateCheck

GateSpec == GateInit /\ [][GateNext]_vars

\* ------------------------------------------------------------ properties
Protected(r) == r.Default \/ r.Root

StoredIds == { r.ID : r \in privs }

\* C1: for every stored default or root record and every update request
\* carrying its id, whatever the request's own default and root fields,
\* Update returns the protected-record error and leaves the privilege
\* collection as it is (a storage failure, which also writes nothing, aside).
C1_UpdateOfProtectedFails ==
  \A R \in privs : Protected(R) =>
    \A req \in UpdateRequests : req.ID = R.ID =>
      \A t1 \in Times, t2 \in Times : \A out \in RepositoryUpdate(req, t1, t2) :
        /\ out.err \in {ErrUpdateRoot, ErrStorage}
        /\ out.privs = privs

\* C2: for every stored default or root record and every delete request
\* carrying its id, whatever the request's own default and root fields,
\* Delete returns the protected-record error before it writes anything (a
\* failing lookup aside): it never goes on to reassign users or to remove
\* the record.
C2_DeleteOfProtectedFails ==
  \A R \in privs : Protected(R) =>
    \A req \in DeleteRequests : req.ID = R.ID =>
      \A out \in RepositoryDelete(req) : out.err \in {ErrDeleteRoot, ErrStorage}

\* C3: in every state the bootstrap calls can reach one after the other,
\* failing lookups and writes included, the privilege collection holds at
\* most one default record and at most one root record.
C3_AtMostOneSingleton ==
  /\ Cardinality(FindDefault) <= 1
  /\ Cardinality(FindRoot) <= 1

\* Every value the six capability flags can take together.
AllFlags ==
  [ViewAllUsers : BOOLEAN, CreateUser : BOOLEAN, ManagePrivileges : BOOLEAN,
   DeleteUser : BOOLEAN, BlockUser : BOOLEAN, SendResetPasswordEmail : BOOLEAN]

\* Those that break the capability-dependency rule.
BadFlags == { f \in AllFlags : ~f.ViewAllUsers /\ \E k \in Dependent : f[k] }

ValidationErrors ==
  {ErrCreateNoView, ErrUpdateCreateNoView, ErrDeleteNoView, ErrManageNoView,
   ErrBlockNoView, ErrResetNoView}

\* C4: Create and Update called with one of create_user, manage_privileges,
\* delete_user, block_user, send_reset_password_email set and view_all_users
\* not set return a validation error and write nothing; and every stored
\* record with one of those five flags set has view_all_users set.
C4_CapabilityDependency ==
  /\ \A r \in privs : (\E k \in Dependent : r[k]) => r.ViewAllUsers
  /\ \A f \in BadFlags, name \in Names, t \in Times :
       /\ \A out \in RepositoryCreate(MarshalPrivilege(0, name, f, FALSE, FALSE), t, t) :
            out.err \in ValidationErrors /\ out.privs = privs
       /\ \A id \in 0..MaxIds :
          \A out \in RepositoryUpdate(MarshalPrivilege(id, name, f, FALSE, FALSE), t, t) :
            out.err \in ValidationErrors /\ out.privs = privs

\* A request breaking the rule has been turned down, and a record with
\* block_user (and view_all_users) has been stored by Create or Update.
C4_Witness ==
  /\ resp = ErrBlockNoView
  /\ \E r \in privs : ~Protected(r) /\ r.BlockUser /\ r.ViewAllUsers

\* C5: with calls served one after the other, a Delete of a privilege P that
\* is neither the default nor the root, once it has found the default
\* privilege D, gives every user that referenced P the id of D and leaves
\* the other users alone; and when it then returns without error, no record
\* with P's id is left, the other records are all kept, and no user
\* references P.
C5_DeleteReassignsUsers ==
  [][\A c \in Calls :
       LET P == call[c].ID
           D == call[c].defaultID
           NonSingleton == \A r \in privs : r.ID = P => ~Protected(r)
       IN  /\ (call[c].pc = "UpdateMany" /\ call'[c].pc = "DeleteOne" /\ NonSingleton) =>
                /\ \E r \in privs : r.Default /\ r.ID = D
                /\ \A u \in Users : users'[u] = IF users[u] = P THEN D ELSE users[u]
                /\ privs' = privs
           /\ (call[c].pc = "DeleteOne" /\ call'[c].pc = "idle" /\ resp' = Nil
                 /\ NonSingleton) =>
                /\ users' = users
                /\ \A u \in Users : users[u] # P
                /\ \A r \in privs' : r.ID # P
                /\ \A r \in privs : r.ID # P => r \in privs'
    ]_vars

\* A Delete of the privilege with the third id has reassigned a user to the
\* default privilege and is about to remove the record.
C5_Witness ==
  \E c \in Calls :
    /\ call[c].pc = "DeleteOne"
    /\ \E r \in privs : r.ID = call[c].ID /\ ~Protected(r)
    /\ \E r \in privs : r.Default /\ r.ID = call[c].defaultID
    /\ \E u \in Users : users[u] = call[c].defaultID
    /\ \A u \in Users : users[u] # call[c].ID

\* C6: in every reachable state, Delete calls interleaved with the other
\* requests and with the assignments the owner of the user collection
\* makes, no user references a privilege that is not in the privilege
\* collection.  Stated for the states in which the default and the root
\* record are both still stored: what it rules out is a reference to an
\* ordinary privilege that Delete has removed.
C6_NoDanglingUser ==
  (FindDefault # {} /\ FindRoot # {}) =>
    \A u \in Users : users[u] = 0 \/ users[u] \in StoredIds

\* C7: Create, Update and Delete, when the token check has returned an
\* error, return that error and nothing else: the repository is not called,
\* neither collection changes, and no Delete call starts.
C7_GateBeforeStore ==
  \A gate \in GateOutcomes : gate.err # Nil =>
    /\ \A req \in CreateRequests, t \in Times :
         HandlerCreate(gate, req, t, t) = { Outcome(gate.err, privs, issued) }
    /\ \A req \in UpdateRequests, t \in Times :
         HandlerUpdate(gate, req, t, t) = { Outcome(gate.err, privs, issued) }
    /\ \A req \in DeleteRequests :
         HandlerDelete(gate, req) = { [err |-> gate.err, defaultID |-> 0] }

\* A request has been turned down by the token check for want of
\* ManagePrivileges, with records to update and delete in the collection.
C7_Witness ==
  /\ resp = ErrForbidden
  /\ \E r \in privs : ~Protected(r)

\* The characters trimming whitespace removes.
Whitespace == {" ", "\t"}

Blank(token) == \A i \in 1..Len(token) : token[i] \in Whitespace

MissingCredential == {ErrNoMetadata, ErrNoToken, ErrEmptyToken}

\* C8: validateTokenHelper fails with a missing-credential error, without
\* contacting the user service, when the context has no metadata, no token
\* entry, or a token that is blank once whitespace is trimmed; with the
\* user service's error when ValidateToken fails; with the forbidden error
\* when ValidateToken answers ManagePrivileges = false; and it succeeds
\* exactly when a token that is not blank is validated with
\* ManagePrivileges = true.
C8_GateDecision ==
  gateOut.err # "pending" =>
    LET ctx == gateIn.ctx
        auth == gateIn.auth
        missing == ~ctx.hasMeta \/ Len(ctx.token) = 0 \/ Blank(ctx.token[1])
        asked == auth.ip /\ auth.port /\ auth.dial /\ auth.ping
    IN  /\ missing => gateOut.err \in MissingCredential /\ gateOut.calls = <<>>
        /\ (~missing /\ asked /\ auth.validate = "err") => gateOut.err = ErrValidateToken
        /\ (~missing /\ asked /\ auth.validate = "deny") => gateOut.err = ErrForbidden
        /\ gateOut.err = Nil <=> (~missing /\ asked /\ auth.validate = "allow")

\* C9: when Run calls CreateDefault with a default record stored, the call
\* returns the already-exists error without going on to its insert, and Run
\* goes on to CreateRoot; likewise CreateRoot with a root record stored.
C9_BootstrapIdempotent ==
  \A p \in Procs :
    /\ (pc[p] = "CreateDefault" /\ FindDefault # {}) =>
         \A out \in CreateDefaultLookup : out.return /\ out.err = ErrDefaultExists
    /\ (pc[p] = "CreateRoot" /\ FindRoot # {}) =>
         \A out \in CreateRootLookup : out.return /\ out.err = ErrRootExists

\* C10: Update called with a privilege that passes validation and whose id
\* no stored record has returns the not-found error (a storage failure
\* aside) and leaves the privilege collection as it is.
C10_UpdateOfAbsentFails ==
  \A req \in UpdateRequests, t1 \in Times, t2 \in Times :
    (validate(prepare(req, "update", t1, t1), "update") = Nil /\ req.ID \notin StoredIds) =>
      \A out \in RepositoryUpdate(req, t1, t2) :
        /\ out.err \in {ErrNoDocuments, ErrStorage}
        /\ out.privs = privs

\* C11: for every create request with a name and with flags that satisfy
\* the capability-dependency rule, once Create has stored it, a Get of the
\* id it was given that returns no error hands its caller a privilege with
\* the request's name and six capability flags, default and root false, an
\* id, and created_at and updated_at that are not the zero time.
C11_RoundTrip ==
  \A req \in CreateRequests, t1 \in Times, t2 \in Times :
    (t1 <= t2 /\ validate(prepare([req EXCEPT !.ID = NewV4], "create", t1, t2), "create") = Nil) =>
      \A out \in RepositoryCreate(req, t1, t2) : out.err = Nil =>
        \A got \in HandlerGet(out.privs, MarshalPrivilege(NewV4, "", NoFlags, FALSE, FALSE)) :
          got.err = Nil =>
            /\ Len(got.rep.Privilege) = 1
            /\ LET p == got.rep.Privilege[1]
               IN  /\ p.Name = req.Name
                   /\ \A k \in {"ViewAllUsers"} \cup Dependent : p[k] = req[k]
                   /\ ~p.Default /\ ~p.Root
                   /\ p.Id # 0
                   /\ p.CreatedAt.Seconds # 0 /\ p.UpdatedAt.Seconds # 0

\* C12: GetRoot, GetDefault and GetAll, for a request whose token check
\* fails, return the token check's error without querying the repository
\* and hand back no record.
C12_ReadsGated ==
  \A gate \in GateOutcomes : gate.err # Nil =>
    \A out \in HandlerGetRoot \cup HandlerGetDefault \cup HandlerGetAll(privs) :
      /\ out.err = gate.err
      /\ ~out.queried
      /\ out.rep = EmptyResponse

\* At most one default and one root record are stored, and no call is about
\* to insert a singleton that is stored already.
NoDuplicateAhead ==
  /\ Cardinality(FindDefault) <= 1
  /\ Cardinality(FindRoot) <= 1
  /\ \A p \in Procs :
       /\ pc[p] = "CreateDefault_InsertOne" => FindDefault = {}
       /\ pc[p] = "CreateRoot_InsertOne" => FindRoot = {}

\* C13: against storage that never fails, two CreateDefault (CreateRoot)
\* calls that overlap can both find the singleton absent and both insert,
\* which leaves two default (root) records; and calls that run one after
\* the other never do: the database starts with no duplicate stored or
\* ahead, and no step of a call that runs with no other call in progress
\* brings one about.
C13_OnlyOverlapDuplicates ==
  /\ NoDuplicateAhead
  /\ [][(BootSeqNext /\ NoDuplicateAhead) => NoDuplicateAhead']_vars

\* Two overlapping CreateDefault calls have both inserted.
C13_Witness ==
  /\ Cardinality(FindDefault) = 2
  /\ \A p \in Procs : pc[p] \notin {"CreateDefault", "CreateDefault_InsertOne"}

\* What Update leaves alone in a collection: per record, its id, its
\* default and root fields and its created_at.
Frame(docs) ==
  { [ID |-> r.ID, Default |-> r.Default, Root |-> r.Root, CreatedAt |-> r.CreatedAt] :
      r \in docs }

\* C14: Create keeps every stored record and stores its own with default
\* and root false, whatever the request carries in those fields; Update
\* changes no record's id, default, root or created_at and adds or removes
\* no record.  So neither changes which records are flagged default or root.
C14_SingletonFlagsFramed ==
  /\ \A req \in CreateRequests, t1 \in Times, t2 \in Times :
     \A out \in RepositoryCreate(req, t1, t2) :
       /\ privs \subseteq out.privs
       /\ \A r \in out.privs \ privs : ~r.Default /\ ~r.Root
  /\ \A req \in UpdateRequests, t1 \in Times, t2 \in Times :
     \A out \in RepositoryUpdate(req, t1, t2) :
       /\ Frame(out.privs) = Frame(privs)
       /\ Cardinality(out.privs) = Cardinality(privs)

\* Create has stored a record, and Update has rewritten the default record,
\* which is still the default record with the created_at it had.
C14_Witness ==
  /\ \E r \in privs : ~Protected(r)
  /\ \E r \in privs : r.Default /\ r.Name = "a" /\ r.UpdatedAt # 0 /\ r.CreatedAt = 0

\* C15: Delete looks the default privilege up before it writes.  A call
\* goes on to the reassignment only with the id of a stored default record,
\* having written nothing; with no default record stored, or the lookup
\* failing, it returns the lookup's error.  A call whose reassignment
\* fails returns the error and leaves the privilege collection as it is;
\* a record is removed only by a call whose reassignment has succeeded.
C15_LookupBeforeWrites ==
  [][/\ \A req \in DeleteRequests : \A out \in RepositoryDelete(req) :
          /\ out.err = Nil => \E r \in privs : r.Default /\ r.ID = out.defaultID
          /\ (FindDefault = {} /\ validate(req, "delete") = Nil) =>
               out.err \in {ErrNoDocuments, ErrStorage}
     /\ \A c \in Calls :
          /\ (call[c].pc = "idle" /\ call'[c].pc = "UpdateMany") =>
               /\ \E r \in privs : r.Default /\ r.ID = call'[c].defaultID
               /\ privs' = privs /\ users' = users
          /\ (call[c].pc = "UpdateMany" /\ call'[c].pc = "idle") =>
               resp' = ErrStorage /\ privs' = privs
          /\ (call[c].pc = "UpdateMany" /\ call'[c].pc = "DeleteOne") =>
               \A u \in Users : users'[u] # call[c].ID \/ call[c].ID = call[c].defaultID
     /\ (\E r \in privs : r.ID \notin { q.ID : q \in privs' }) =>
          \E c \in Calls : call[c].pc = "DeleteOne" /\ call'[c].pc = "idle"
    ]_vars

\* With no default record left, a Delete has returned the lookup's
\* not-found error, the record it was to remove still stored.
C15_Witness ==
  /\ resp = ErrNoDocuments
  /\ FindDefault = {}
  /\ \E r \in privs : ~Protected(r)
  /\ Quiet

====
